---- MODULE Spec2Model ----
(***************************************************************************)
(* The QnA matching core of the Isha assistant (src/main.py, QnAModel):    *)
(* the corpus loader, the text normalizer, the TF-IDF index and the        *)
(* confidence-gated answer selection, with the load/answer operations as   *)
(* atomic steps (Spec) and as interleaved threads (SpecConc); the loader    *)
(* alone (SpecLoader); and of the assistant around it (IshaAssistant):     *)
(* process_command (in Spec) and the toggle_voice / _listen_loop threads   *)
(* (SpecVoice).                                                            *)
(*                                                                         *)
(* A text is a sequence of units: words, punctuation marks, the colon and  *)
(* the blank.  Real numbers are fixed-point integers with Unit standing    *)
(* for 1.0.                                                                *)
(***************************************************************************)
EXTENDS Integers, Sequences, FiniteSets, TLC

(***************************************************************************)
(* Bounds                                                                  *)
(***************************************************************************)
\* Largest number of lines of a corpus file.
MaxLines == 2
\* Fixed-point scale: the integer that stands for 1.0.
Unit == 1000
\* Reader threads of the interleaved specification.
NReaders == 2
\* Loads the builder thread of the interleaved specification performs.
MaxBuilds == 2
\* Calls of toggle_voice in the voice specification.
MaxToggles == 3

(***************************************************************************)
(* Program constant: the confidence threshold, in hundredths (0.15).       *)
(***************************************************************************)
ThresholdPct == 15

(***************************************************************************)
(* Text units                                                              *)
(***************************************************************************)
SP == " "
COLON == ":"

\* str.isspace of a unit.
IsSpace(u) == u = SP

\* str.lower of a unit.
Lower(u) ==
    CASE u = "Time" -> "time"
      [] u = "Who" -> "who"
      [] OTHER -> u

\* str.isalnum of a (lower-cased) token.
IsAlnum(u) == u \notin {SP, COLON, "?", "!"}

\* nltk.corpus.stopwords.words('english'), the members among the units.
StopWords == {"who", "are", "you", "what", "is", "it", "your", "a", "me"}

\* PorterStemmer.stem of a lower-cased token.
Stem(u) ==
    CASE u = "names" -> "name"
      [] u = "running" -> "run"
      [] OTHER -> u

\* Stems of a single character: TfidfVectorizer's token pattern \b\w\w+\b
\* keeps only tokens of two or more characters.
ShortTokens == {"u", "r"}

\* The terms a vocabulary can hold, in the sorted order that assigns the
\* column indices.
TermOrder == <<"joke", "name", "run", "time">>

(***************************************************************************)
(* Sequence helpers                                                        *)
(***************************************************************************)
Range(s) == {s[i] : i \in 1..Len(s)}

\* str.strip: drop the leading and the trailing blanks.
RECURSIVE LStrip(_)
LStrip(s) == IF s # <<>> /\ IsSpace(Head(s)) THEN LStrip(Tail(s)) ELSE s

RECURSIVE RStrip(_)
RStrip(s) ==
    IF s # <<>> /\ IsSpace(s[Len(s)]) THEN RStrip(SubSeq(s, 1, Len(s) - 1)) ELSE s

Strip(s) == RStrip(LStrip(s))

\* Index of the first colon of a text, 0 when it has none.
RECURSIVE FirstColonFrom(_, _)
FirstColonFrom(s, i) ==
    IF i > Len(s) THEN 0
    ELSE IF s[i] = COLON THEN i
    ELSE FirstColonFrom(s, i + 1)

FirstColon(s) == FirstColonFrom(s, 1)

(***************************************************************************)
(* Corpus loader: QnAModel._load_and_train, lines 82-88                    *)
(***************************************************************************)
\* Mutation of SplitPair: the split at the last colon (rsplit).
SplitPairLast(line) ==
    LET Last[i \in 0..Len(line)] ==
            IF i = 0 THEN 0 ELSE IF line[i] = COLON THEN i ELSE Last[i - 1]
        c == Last[Len(line)]
    IN  [question |-> Strip(SubSeq(line, 1, c - 1)),
         answer   |-> Strip(SubSeq(line, c + 1, Len(line)))]

\* line.split(':', 1) with both halves stripped.
SplitPair(line) ==
    LET c == FirstColon(line)
    IN  [question |-> Strip(SubSeq(line, 1, c - 1)),
         answer   |-> Strip(SubSeq(line, c + 1, Len(line)))]

\* lines = [ln.strip() for ln in f if ln.strip()]
RECURSIVE StripLines(_)
StripLines(f) ==
    IF f = <<>> THEN <<>>
    ELSE IF Strip(Head(f)) = <<>> THEN StripLines(Tail(f))
    ELSE <<Strip(Head(f))>> \o StripLines(Tail(f))

\* The loop over the stripped lines: one pair per line holding a colon.
RECURSIVE PairsOf(_)
PairsOf(lines) ==
    IF lines = <<>> THEN <<>>
    ELSE IF FirstColon(Head(lines)) # 0
         THEN <<SplitPair(Head(lines))>> \o PairsOf(Tail(lines))
         ELSE PairsOf(Tail(lines))

ParsePairs(f) == PairsOf(StripLines(f))

(***************************************************************************)
(* Text normalizer: QnAModel._preprocess_text, lines 100-105               *)
(***************************************************************************)
\* word_tokenize(text.lower()): blanks separate, every other unit is a token.
RECURSIVE Tokenize(_)
Tokenize(text) ==
    IF text = <<>> THEN <<>>
    ELSE IF IsSpace(Head(text)) THEN Tokenize(Tail(text))
    ELSE <<Lower(Head(text))>> \o Tokenize(Tail(text))

\* Mutation of StemKept: the kept tokens without stemming.
StemKeptNoStem(toks) ==
    LET Kept(t) == IsAlnum(t) /\ t \notin StopWords IN SelectSeq(toks, Kept)

\* [ps.stem(t) for t in tokens if t.isalnum() and t not in stop_words]
RECURSIVE StemKept(_)
StemKept(toks) ==
    IF toks = <<>> THEN <<>>
    ELSE IF IsAlnum(Head(toks)) /\ Head(toks) \notin StopWords
         THEN <<Stem(Head(toks))>> \o StemKept(Tail(toks))
         ELSE StemKept(Tail(toks))

\* The joined string " ".join(tokens), kept as the sequence of its stems.
PreprocessText(text) == StemKept(Tokenize(text))

(***************************************************************************)
(* Fixed-point arithmetic                                                  *)
(***************************************************************************)
\* Largest r with r * r <= n, by bisection on lo..hi.
RECURSIVE ISqrtIn(_, _, _)
ISqrtIn(n, lo, hi) ==
    IF lo >= hi THEN lo
    ELSE LET mid == (lo + hi + 1) \div 2
         IN  IF mid * mid <= n THEN ISqrtIn(n, mid, hi) ELSE ISqrtIn(n, lo, mid - 1)

ISqrt(n) == ISqrtIn(n, 0, 46340)

\* 1000 * ln(a / b), rounded, for the ratios (1 + N) / (1 + df) of a corpus of
\* at most five documents.
LnMilli(a, b) ==
    CASE a = b -> 0
      [] <<a, b>> = <<3, 2>> -> 405
      [] <<a, b>> = <<4, 2>> -> 693
      [] <<a, b>> = <<4, 3>> -> 288
      [] <<a, b>> = <<5, 2>> -> 916
      [] <<a, b>> = <<5, 3>> -> 511
      [] <<a, b>> = <<5, 4>> -> 223
      [] <<a, b>> = <<6, 2>> -> 1099
      [] <<a, b>> = <<6, 3>> -> 693
      [] <<a, b>> = <<6, 4>> -> 405
      [] <<a, b>> = <<6, 5>> -> 182

RECURSIVE SumSq(_)
SumSq(v) == IF v = <<>> THEN 0 ELSE Head(v) * Head(v) + SumSq(Tail(v))

RECURSIVE Dot(_, _)
Dot(a, b) == IF a = <<>> THEN 0 ELSE Head(a) * Head(b) + Dot(Tail(a), Tail(b))

\* sklearn.preprocessing.normalize(norm='l2'): a zero row stays zero.
L2Normalize(v) ==
    LET n == ISqrt(SumSq(v))
    IN  IF n = 0 THEN v ELSE [j \in 1..Len(v) |-> (v[j] * Unit) \div n]

(***************************************************************************)
(* TfidfVectorizer (default parameters), lines 94-95 and 112               *)
(***************************************************************************)
NoVectorizer == [tag |-> "None", vocab |-> <<>>, idf |-> <<>>]
\* TfidfVectorizer(): constructed, not fitted.
NewVectorizer == [tag |-> "new", vocab |-> <<>>, idf |-> <<>>]
NoX == [tag |-> "None", rows |-> <<>>]

\* The analyzer: the tokens of two or more characters of a document.
Analyze(doc) == LET Keep(t) == t \notin ShortTokens IN SelectSeq(doc, Keep)

RECURSIVE Count(_, _)
Count(t, doc) ==
    IF doc = <<>> THEN 0
    ELSE (IF Head(doc) = t THEN 1 ELSE 0) + Count(t, Tail(doc))

\* vocabulary_: the terms of the corpus, sorted.
Vocabulary(corpus) ==
    LET Seen(t) == \E i \in 1..Len(corpus) : t \in Range(Analyze(corpus[i]))
    IN  SelectSeq(TermOrder, Seen)

\* Number of documents that hold the term.
Df(t, corpus) == Cardinality({i \in 1..Len(corpus) : t \in Range(Analyze(corpus[i]))})

\* idf_ = ln((1 + N) / (1 + df)) + 1 (smooth_idf).
Idf(n, df) == Unit + (LnMilli(1 + n, 1 + df) * Unit) \div 1000

\* fit: raises ValueError("empty vocabulary") when no term is left.
CanFit(corpus) == Vocabulary(corpus) # <<>>

Fit(corpus) ==
    LET voc == Vocabulary(corpus)
    IN  [tag |-> "fitted", vocab |-> voc,
         idf |-> [j \in 1..Len(voc) |-> Idf(Len(corpus), Df(voc[j], corpus))]]

\* transform of one document by a fitted vectorizer: tf * idf, L2-normalized;
\* a term outside the vocabulary has no column.
Transform(vec, doc) ==
    L2Normalize([j \in 1..Len(vec.vocab) |-> Count(vec.vocab[j], Analyze(doc)) * vec.idf[j]])

\* fit_transform's result: the matrix of the corpus.
TransformAll(vec, corpus) ==
    [tag |-> "set", rows |-> [i \in 1..Len(corpus) |-> Transform(vec, corpus[i])]]

(***************************************************************************)
(* cosine_similarity and argmax, lines 113-115                             *)
(***************************************************************************)
\* Columns of the stored matrix.
NCols(x) == Len(x.rows[1])

\* cosine_similarity(qv, X): both sides L2-normalized, then the dot products.
\* The scores are scaled by Unit * Unit.
Similarities(qv, x) ==
    [i \in 1..Len(x.rows) |-> Dot(L2Normalize(qv), L2Normalize(x.rows[i]))]

\* Mutation of ArgMax: the last index that holds the maximum.
ArgMaxLast(sims) ==
    CHOOSE i \in 1..Len(sims) :
        /\ \A j \in 1..Len(sims) : sims[j] <= sims[i]
        /\ \A j \in (i + 1)..Len(sims) : sims[j] < sims[i]

\* numpy argmax: the first index that holds the maximum.
ArgMax(sims) ==
    CHOOSE i \in 1..Len(sims) :
        /\ \A j \in 1..Len(sims) : sims[j] <= sims[i]
        /\ \A j \in 1..(i - 1) : sims[j] < sims[i]

\* score < 0.15
BelowThreshold(score) == score * 100 < ThresholdPct * Unit * Unit

(***************************************************************************)
(* Inputs: corpus files and queries                                        *)
(***************************************************************************)
\* A question of stop words only.
LineWho == <<"who", SP, "are", SP, "you", COLON, SP, "assistant">>
LineTime == <<"what", SP, "time", SP, "is", SP, "it", COLON, SP, "clock">>
\* Normalizes to the same question as LineTime; blanks around the question,
\* a colon inside the answer.
LineTime2 == <<SP, "Time", SP, COLON, "at", COLON, "noon", SP>>
\* One term seven times beside another (a positive similarity under 0.15),
\* and an empty answer.
LineRuns ==
    <<"running", SP, "run", SP, "run", SP, "run", SP, "run", SP, "run", SP, "run",
      SP, "time", COLON>>
LineNoColon == <<"joke">>
LineBlank == <<SP>>

\* The lines that hold a pair, and all the lines.
PairLines == {LineWho, LineTime, LineTime2, LineRuns}
Lines == PairLines \cup {LineNoColon, LineBlank}

\* File contents: at most MaxLines lines.
FilesOver(ls) == UNION {[1..n -> ls] : n \in 0..MaxLines}

\* A file without a single question:answer line.
NoPairsFile == <<LineNoColon, LineBlank>>

\* A corpus source: no file at the path, a file that cannot be read, a file.
MissingSource == [kind |-> "missing", lines |-> <<>>]
UnreadableSource == [kind |-> "unreadable", lines |-> <<>>]
FileSource(f) == [kind |-> "file", lines |-> f]
Sources ==
    {MissingSource, UnreadableSource, FileSource(NoPairsFile)}
        \cup {FileSource(f) : f \in FilesOver(PairLines)}

\* The commands given to process_command.
Commands ==
    {<<>>, <<SP>>, <<"joke">>, <<"running">>, <<"Time">>, <<"date">>,
     <<"what", SP, "time", SP, "is", SP, "it">>,
     <<"Who", SP, "are", SP, "you", "?">>,
     <<"open", SP, "https://example.com">>, <<"open", SP, "notepad">>}

Queries ==
    {<<>>, <<SP>>, <<"?">>, <<"Who", SP, "are", SP, "you", "?">>, <<"u">>,
     <<"time">>, <<"joke">>, <<"run", SP, "time">>,
     <<"running", SP, "Time", "?">>}

(***************************************************************************)
(* State                                                                   *)
(***************************************************************************)
VARIABLES
    dataset,      \* self.dataset: the list of question/answer pairs
    vectorizer,   \* self.vectorizer
    X,            \* self.X: the document matrix
    constructed,  \* QnAModel.__init__ has returned
    outcome,      \* how the last load ended (what it logged)
    raised,       \* the last load raised to its caller
    query,        \* the argument of the last get_answer since the last load
    result,       \* what that get_answer returned or raised
    file,         \* loader alone: the content of the file
    stripped,     \* loader alone: the local lines of line 83
    pairs,        \* loader alone: the local pairs of lines 84-88
    lpc,          \* loader alone: the position in lines 82-88
    bpc,          \* threads: the position of the loading thread
    bsrc,         \* threads: the source the loading thread reads
    builds,       \* threads: the loads started
    lock,         \* threads: the holder of self.lock, 0 when free
    rpc,          \* threads: the position of each get_answer call
    rq,           \* threads: its argument
    rqv,          \* threads: its local qv
    rbest,        \* threads: its locals best and score
    seen,         \* threads: the values of the fields it has used
    nread,        \* threads: how many of them it has read
    rres,         \* threads: what it returned or raised
    command,      \* the argument of the last process_command since the last load
    response,     \* what that process_command returned or raised
    spoken,       \* the texts it passed to speak
    microphone,   \* voice: self.microphone is set
    is_listening, \* voice: self.is_listening
    tpc,          \* voice: the position of each toggle_voice caller
    tmp,          \* voice: the value of is_listening a caller has read
    toggles,      \* voice: the toggle_voice calls started
    loop          \* voice: the position of each _listen_loop thread

matcherVars == <<dataset, vectorizer, X>>
callVars == <<constructed, outcome, raised, query, result>>
loaderVars == <<file, stripped, pairs, lpc>>
builderVars == <<bpc, bsrc, builds>>
readerVars == <<lock, rpc, rq, rqv, rbest, seen, nread, rres>>
threadVars == <<builderVars, readerVars>>
commandVars == <<command, response, spoken>>
voiceVars == <<microphone, is_listening, tpc, tmp, toggles, loop>>
assistantVars == <<commandVars, voiceVars>>
vars == <<matcherVars, callVars, loaderVars, threadVars, assistantVars>>

None == [tag |-> "None", val |-> <<>>]
Some(a) == [tag |-> "Some", val |-> a]
\* An exception leaving get_answer.
Raise(e) == [tag |-> "Raise", val |-> <<e>>]
NoCall == [tag |-> "NoCall", val |-> <<>>]

(***************************************************************************)
(* QnAModel.get_answer, lines 107-118                                      *)
(***************************************************************************)
\* Mutation of NotReady: the guard without the test of self.X.
NotReadyNoX(d, v, x) == d = <<>> \/ v.tag = "None"

\* Line 109: the guard that returns None.
NotReady(d, v, x) == d = <<>> \/ v.tag = "None" \/ x.tag = "None"

\* Lines 113-115 on a query vector: the index and the score of the best row.
BestMatch(x, qv) ==
    LET sims == Similarities(qv, x)
        best == ArgMax(sims)
    IN  [best |-> best, score |-> sims[best]]

\* Mutation of Gate: no confidence gate (get_answer of Traning_Model/model.py).
GateNoThreshold(d, m) == Some(d[m.best].answer)

\* Mutation of Gate: the answer of the first entry instead of the best one.
GateFirstEntry(d, m) == IF BelowThreshold(m.score) THEN None ELSE Some(d[1].answer)

\* Lines 116-118: the gate and the selected answer.
Gate(d, m) ==
    IF BelowThreshold(m.score) THEN None
    ELSE IF m.best > Len(d) THEN Raise("IndexError")
    ELSE Some(d[m.best].answer)

\* get_answer on the fields d, v, x.
GetAnswerOf(d, v, x, question) ==
    IF NotReady(d, v, x) THEN None
    ELSE IF v.tag = "new" THEN Raise("NotFittedError")
    ELSE LET qv == Transform(v, PreprocessText(question))
         IN  IF Len(qv) # NCols(x) THEN Raise("ValueError")
             ELSE Gate(d, BestMatch(x, qv))

(***************************************************************************)
(* IshaAssistant.process_command, lines 306-374                            *)
(***************************************************************************)
\* str.lower of a text.
LowerText(s) == [i \in 1..Len(s) |-> Lower(s[i])]

\* len(cmd.split()): the maximal runs of units that are not blanks.
WordCount(s) ==
    Cardinality({i \in 1..Len(s) : ~IsSpace(s[i]) /\ (i = 1 \/ IsSpace(s[i - 1]))})

\* sub in s, for texts.
HasSub(s, sub) == \E i \in 0..(Len(s) - Len(sub)) : SubSeq(s, i + 1, i + Len(sub)) = sub

\* cmd.startswith("open ")
StartsWithOpen(cmd) == Len(cmd) >= 2 /\ cmd[1] = "open" /\ cmd[2] = SP
\* target.startswith("http")
StartsWithHttp(target) == target # <<>> /\ target[1] = "https://example.com"
\* "time" in cmd and len(cmd.split()) <= 3
IsTimeCommand(cmd) == "time" \in Range(cmd) /\ WordCount(cmd) <= 3
\* "date" in cmd and len(cmd.split()) <= 3
IsDateCommand(cmd) == "date" \in Range(cmd) /\ WordCount(cmd) <= 3
\* "who are you" in cmd or "your name" in cmd
IsWhoCommand(cmd) ==
    \/ HasSub(cmd, <<"who", SP, "are", SP, "you">>)
    \/ HasSub(cmd, <<"your", SP, "name">>)

\* The command is handled before line 365.
IsBuiltIn(cmd) ==
    StartsWithOpen(cmd) \/ IsTimeCommand(cmd) \/ IsDateCommand(cmd) \/ IsWhoCommand(cmd)

\* The response texts.
NoCommandText == <<"No command received.">>
TimeText == <<"The time is ", "HH:MM">>
DateText == <<"Today's date is ", "Month DD, YYYY">>
WhoText == <<"main Isha hoon, tumhara personal assistant!">>
FallbackText(c) == <<"I didn't find a specific answer. You said: ">> \o c

\* The result of a call that spoke text t and returned it without asking
\* the matcher.
Said(t) ==
    [response |-> [tag |-> "Return", val |-> t], spoken |-> <<t>>,
     query |-> <<>>, result |-> [tag |-> "NoCall", val |-> <<>>]]

\* Lines 316-343: the open commands; opened tells whether the browser or the
\* launcher call returned (TRUE) or raised (FALSE).
OpenCommand(cmd, opened) ==
    LET target == Strip(SubSeq(cmd, 3, Len(cmd)))
    IN  IF StartsWithHttp(target)
        THEN Said((IF opened THEN <<"Opening ">> ELSE <<"Failed to open URL: ">>) \o target)
        ELSE Said((IF opened THEN <<"Attempting to open ">> ELSE <<"Could not open ">>) \o target)

\* Line 367, "if ans:": None and the empty text are both false.
Truthy(ans) == ans.tag = "Some" /\ ans.val # <<>>

\* Lines 365-374 on the matcher's fields d, v, x: an exception of get_answer
\* leaves process_command; a true answer is spoken and returned; otherwise
\* the fallback text with the command as it was given.
AskMatcher(c, cmd, d, v, x) ==
    LET ans == GetAnswerOf(d, v, x, cmd)
    IN  IF ans.tag = "Raise"
        THEN [response |-> ans, spoken |-> <<>>, query |-> cmd, result |-> ans]
        ELSE IF Truthy(ans)
        THEN [response |-> [tag |-> "Return", val |-> ans.val], spoken |-> <<ans.val>>,
              query |-> cmd, result |-> ans]
        ELSE [response |-> [tag |-> "Return", val |-> FallbackText(c)],
              spoken |-> <<FallbackText(c)>>, query |-> cmd, result |-> ans]

\* process_command(c).
ProcessCommandOf(c, d, v, x, opened) ==
    IF c = <<>> THEN Said(NoCommandText)
    ELSE LET cmd == Strip(LowerText(c))
         IN  IF StartsWithOpen(cmd) THEN OpenCommand(cmd, opened)
             ELSE IF IsTimeCommand(cmd) THEN Said(TimeText)
             ELSE IF IsDateCommand(cmd) THEN Said(DateText)
             ELSE IF IsWhoCommand(cmd) THEN Said(WhoText)
             ELSE AskMatcher(c, cmd, d, v, x)

\* Mutation of FieldsAfterAnswer: transform adds the unseen terms of the
\* query to the vocabulary.
FieldsAfterAnswerGrowing(d, v, x, question) ==
    LET terms == Range(Analyze(PreprocessText(question)))
        Known(t) == t \in Range(v.vocab) \/ t \in terms
        voc == SelectSeq(TermOrder, Known)
    IN  [dataset |-> d,
         vectorizer |-> IF v.tag = "fitted"
                        THEN [tag |-> "fitted", vocab |-> voc,
                              idf |-> [j \in 1..Len(voc) |-> Unit]]
                        ELSE v,
         X |-> x]

\* The fields when get_answer has returned or raised: lines 109-118 assign
\* no field, and transform (line 112) of a fitted vectorizer looks the terms
\* up in vocabulary_ without adding to it.
FieldsAfterAnswer(d, v, x, question) == [dataset |-> d, vectorizer |-> v, X |-> x]

(***************************************************************************)
(* QnAModel._load_and_train, lines 77-98                                   *)
(***************************************************************************)
\* corpus = [self._preprocess_text(qa['question']) for qa in self.dataset]
CorpusOf(ps) == [i \in 1..Len(ps) |-> PreprocessText(ps[i].question)]

\* Lines 93-95: the new vectorizer and fit_transform on the corpus of the
\* pairs.  fit_transform raises on an empty vocabulary and leaves the
\* vectorizer unfitted.
FitTransform(ps) ==
    LET corpus == CorpusOf(ps)
        fitted == Fit(corpus)
    IN  IF CanFit(corpus)
        THEN [ok |-> TRUE, vectorizer |-> fitted, X |-> TransformAll(fitted, corpus)]
        ELSE [ok |-> FALSE, vectorizer |-> NewVectorizer, X |-> NoX]

\* Lines 82-88 and 93-95 for each source, evaluated once per source.
ParsedOf == [s \in Sources |-> ParsePairs(s.lines)]
FitOf == [s \in Sources |-> FitTransform(ParsedOf[s])]

\* The fields and the log after _load_and_train has read source s.  When
\* fit_transform raises, lines 92 and 94 have assigned and line 95 has not;
\* the handler of line 97 only logs.
LoadResult(s, d, v, x) ==
    IF s.kind = "missing"
    THEN [dataset |-> d, vectorizer |-> v, X |-> x, outcome |-> "no file"]
    ELSE IF s.kind = "unreadable"
    THEN [dataset |-> d, vectorizer |-> v, X |-> x, outcome |-> "read failed"]
    ELSE IF ParsedOf[s] = <<>>
    THEN [dataset |-> d, vectorizer |-> v, X |-> x, outcome |-> "no pairs"]
    ELSE [dataset |-> ParsedOf[s], vectorizer |-> FitOf[s].vectorizer,
          X |-> IF FitOf[s].ok THEN FitOf[s].X ELSE x,
          outcome |-> IF FitOf[s].ok THEN "trained" ELSE "fit failed"]

\* Mutation of LoadRaises: the handler raises again when the read fails.
LoadRaisesOnError(s) == s.kind # "file"

\* Every exit of _load_and_train is a return: the except clause of line 97
\* swallows what the body raises.
LoadRaises(s) == FALSE

LoadAndTrain(s) ==
    LET r == LoadResult(s, dataset, vectorizer, X)
    IN  /\ dataset' = r.dataset
        /\ vectorizer' = r.vectorizer
        /\ X' = r.X
        /\ outcome' = r.outcome
        /\ raised' = LoadRaises(s)
        /\ query' = <<>>
        /\ result' = NoCall
        /\ command' = <<>>
        /\ response' = NoCall
        /\ spoken' = <<>>

(***************************************************************************)
(* Operations, each one atomic                                             *)
(***************************************************************************)
Readers == 1..NReaders

NoMatch == [best |-> 0, score |-> 0]
NothingSeen == [d |-> <<>>, v |-> NoVectorizer, x |-> NoX]

\* Callers of toggle_voice: the server thread (GET /voice) and the hotkey
\* thread.
Togglers == {"server", "hotkey"}
\* The _listen_loop threads that can be started.
Loops == 1..MaxToggles

\* IshaAssistant.__init__: no command processed, not listening, no toggle
\* in progress, no listening thread.
InitAssistant ==
    /\ command = <<>>
    /\ response = NoCall
    /\ spoken = <<>>
    /\ is_listening = FALSE
    /\ tpc = [t \in Togglers |-> "idle"]
    /\ tmp = [t \in Togglers |-> FALSE]
    /\ toggles = 0
    /\ loop = [l \in Loops |-> "none"]

\* No thread has started.
InitThreads ==
    /\ bpc = "idle"
    /\ bsrc = MissingSource
    /\ builds = 0
    /\ lock = 0
    /\ rpc = [r \in Readers |-> "idle"]
    /\ rq = [r \in Readers |-> <<>>]
    /\ rqv = [r \in Readers |-> <<>>]
    /\ rbest = [r \in Readers |-> NoMatch]
    /\ seen = [r \in Readers |-> NothingSeen]
    /\ nread = [r \in Readers |-> 0]
    /\ rres = [r \in Readers |-> NoCall]

\* Lines 70-74: the fields before the constructor's load.
InitMatcher ==
    /\ dataset = <<>>
    /\ vectorizer = NoVectorizer
    /\ X = NoX
    /\ constructed = FALSE
    /\ outcome = "none"
    /\ raised = FALSE
    /\ query = <<>>
    /\ result = NoCall

Init ==
    /\ InitMatcher
    /\ InitThreads
    /\ InitAssistant
    /\ microphone = TRUE
    /\ file = <<>>
    /\ stripped = <<>>
    /\ pairs = <<>>
    /\ lpc = "open"

\* QnAModel.__init__: line 75.
Construct(s) ==
    /\ ~constructed
    /\ LoadAndTrain(s)
    /\ constructed' = TRUE
    /\ UNCHANGED <<loaderVars, threadVars, voiceVars>>

\* A later call of _load_and_train on the same object.
Reload(s) ==
    /\ constructed
    /\ LoadAndTrain(s)
    /\ UNCHANGED <<constructed, loaderVars, threadVars, voiceVars>>

\* A call of get_answer.
GetAnswer(q) ==
    /\ constructed
    /\ query' = q
    /\ result' = GetAnswerOf(dataset, vectorizer, X, q)
    /\ LET after == FieldsAfterAnswer(dataset, vectorizer, X, q)
       IN  /\ dataset' = after.dataset
           /\ vectorizer' = after.vectorizer
           /\ X' = after.X
    /\ command' = <<>>
    /\ response' = NoCall
    /\ spoken' = <<>>
    /\ UNCHANGED <<constructed, outcome, raised, loaderVars, threadVars, voiceVars>>

\* A call of process_command (from the /command request of line 469).
ProcessCommand(c, opened) ==
    /\ constructed
    /\ LET out == ProcessCommandOf(c, dataset, vectorizer, X, opened)
       IN  /\ command' = c
           /\ response' = out.response
           /\ spoken' = out.spoken
           /\ query' = out.query
           /\ result' = out.result
    /\ UNCHANGED <<matcherVars, constructed, outcome, raised, loaderVars, threadVars, voiceVars>>

\* The queries tried: the fixed ones and the questions of the corpus.
Asked == Queries \cup {dataset[i].question : i \in 1..Len(dataset)}

Next ==
    \/ \E s \in Sources : Construct(s)
    \/ \E s \in Sources : Reload(s)
    \/ \E q \in Asked : GetAnswer(q)
    \/ \E c \in Commands, opened \in BOOLEAN : ProcessCommand(c, opened)

Spec == Init /\ [][Next]_vars

(***************************************************************************)
(* The loader alone: every file of at most MaxLines lines is parsed.       *)
(***************************************************************************)
InitLoader ==
    /\ InitMatcher
    /\ InitThreads
    /\ InitAssistant
    /\ microphone = TRUE
    /\ file \in FilesOver(Lines)
    /\ stripped = <<>>
    /\ pairs = <<>>
    /\ lpc = "open"

\* Lines 82-83: read the file, keep the stripped non-empty lines.
ReadLines ==
    /\ lpc = "open"
    /\ stripped' = StripLines(file)
    /\ lpc' = "read"
    /\ UNCHANGED <<matcherVars, callVars, threadVars, assistantVars, file, pairs>>

\* Lines 84-88: the loop that collects the pairs.
CollectPairs ==
    /\ lpc = "read"
    /\ pairs' = PairsOf(stripped)
    /\ lpc' = "parsed"
    /\ UNCHANGED <<matcherVars, callVars, threadVars, assistantVars, file, stripped>>

NextLoader == ReadLines \/ CollectPairs

SpecLoader == InitLoader /\ [][NextLoader]_vars

(***************************************************************************)
(* Threads: one thread runs _load_and_train again while others call        *)
(* get_answer.  A step is one read or one assignment of a field of the     *)
(* shared object; fit_transform's fitting of the vectorizer is taken as    *)
(* one step.  get_answer holds self.lock (line 108); _load_and_train never *)
(* takes it.                                                               *)
(***************************************************************************)
\* The sources the loading thread reads and the queries the callers ask.
ConcSources ==
    {FileSource(<<LineTime>>), FileSource(<<LineRuns, LineTime2>>), FileSource(NoPairsFile)}
ConcQueries == {<<"time">>, <<"joke">>}

\* The object is shared once its constructor has returned.
InitConc ==
    /\ \E s \in ConcSources :
           LET r == LoadResult(s, <<>>, NoVectorizer, NoX)
           IN  /\ dataset = r.dataset
               /\ vectorizer = r.vectorizer
               /\ X = r.X
               /\ outcome = r.outcome
    /\ constructed = TRUE
    /\ raised = FALSE
    /\ query = <<>>
    /\ result = NoCall
    /\ file = <<>>
    /\ stripped = <<>>
    /\ pairs = <<>>
    /\ lpc = "open"
    /\ InitThreads
    /\ InitAssistant
    /\ microphone = TRUE

\* Lines 79-91: the file test, the read and the parse, all on locals.
BeginLoad(s) ==
    /\ bpc = "idle"
    /\ builds < MaxBuilds
    /\ builds' = builds + 1
    /\ bsrc' = s
    /\ IF s.kind # "file" \/ ParsedOf[s] = <<>>
       THEN /\ bpc' = "idle"
            /\ outcome' = LoadResult(s, dataset, vectorizer, X).outcome
       ELSE /\ bpc' = "line 92"
            /\ UNCHANGED outcome
    /\ UNCHANGED <<matcherVars, constructed, raised, query, result, loaderVars, assistantVars, readerVars>>

\* Line 92: self.dataset = pairs
StoreDataset ==
    /\ bpc = "line 92"
    /\ dataset' = ParsedOf[bsrc]
    /\ bpc' = "line 94"
    /\ UNCHANGED <<vectorizer, X, callVars, loaderVars, assistantVars, bsrc, builds, readerVars>>

\* Lines 93-94: self.vectorizer = TfidfVectorizer()
StoreVectorizer ==
    /\ bpc = "line 94"
    /\ vectorizer' = NewVectorizer
    /\ bpc' = "fit"
    /\ UNCHANGED <<dataset, X, callVars, loaderVars, assistantVars, bsrc, builds, readerVars>>

\* Line 95, the call: fit_transform fits the stored vectorizer in place, or
\* raises into the handler of line 97.
FitVectorizer ==
    /\ bpc = "fit"
    /\ IF FitOf[bsrc].ok
       THEN /\ vectorizer' = FitOf[bsrc].vectorizer
            /\ bpc' = "line 95"
            /\ UNCHANGED outcome
       ELSE /\ bpc' = "idle"
            /\ outcome' = "fit failed"
            /\ UNCHANGED vectorizer
    /\ UNCHANGED <<dataset, X, constructed, raised, query, result, loaderVars, assistantVars, bsrc, builds, readerVars>>

\* Line 95, the assignment: self.X = ...
StoreX ==
    /\ bpc = "line 95"
    /\ X' = FitOf[bsrc].X
    /\ bpc' = "idle"
    /\ outcome' = "trained"
    /\ UNCHANGED <<dataset, vectorizer, constructed, raised, query, result, loaderVars, assistantVars, bsrc, builds, readerVars>>

\* get_answer leaves with a value or an exception; the with block releases.
Leave(r, val) ==
    /\ rres' = [rres EXCEPT ![r] = val]
    /\ rpc' = [rpc EXCEPT ![r] = "idle"]
    /\ lock' = 0

\* Line 108: with self.lock
Call(r, q) ==
    /\ rpc[r] = "idle"
    /\ lock = 0
    /\ lock' = r
    /\ rpc' = [rpc EXCEPT ![r] = "line 109 dataset"]
    /\ rq' = [rq EXCEPT ![r] = q]
    /\ rqv' = [rqv EXCEPT ![r] = <<>>]
    /\ rbest' = [rbest EXCEPT ![r] = NoMatch]
    /\ seen' = [seen EXCEPT ![r] = NothingSeen]
    /\ nread' = [nread EXCEPT ![r] = 0]
    /\ rres' = [rres EXCEPT ![r] = NoCall]
    /\ UNCHANGED <<matcherVars, callVars, loaderVars, assistantVars, builderVars>>

\* Line 109: not self.dataset
CheckDataset(r) ==
    /\ rpc[r] = "line 109 dataset"
    /\ IF dataset = <<>>
       THEN Leave(r, None)
       ELSE /\ rpc' = [rpc EXCEPT ![r] = "line 109 vectorizer"]
            /\ UNCHANGED <<lock, rres>>
    /\ UNCHANGED <<matcherVars, callVars, loaderVars, assistantVars, builderVars, rq, rqv, rbest, seen, nread>>

\* Line 109: self.vectorizer is None
CheckVectorizer(r) ==
    /\ rpc[r] = "line 109 vectorizer"
    /\ IF vectorizer.tag = "None"
       THEN Leave(r, None)
       ELSE /\ rpc' = [rpc EXCEPT ![r] = "line 109 X"]
            /\ UNCHANGED <<lock, rres>>
    /\ UNCHANGED <<matcherVars, callVars, loaderVars, assistantVars, builderVars, rq, rqv, rbest, seen, nread>>

\* Line 109: self.X is None
CheckX(r) ==
    /\ rpc[r] = "line 109 X"
    /\ IF X.tag = "None"
       THEN Leave(r, None)
       ELSE /\ rpc' = [rpc EXCEPT ![r] = "line 112"]
            /\ UNCHANGED <<lock, rres>>
    /\ UNCHANGED <<matcherVars, callVars, loaderVars, assistantVars, builderVars, rq, rqv, rbest, seen, nread>>

\* Lines 111-112: qv = self.vectorizer.transform([proc])
TransformQuery(r) ==
    /\ rpc[r] = "line 112"
    /\ seen' = [seen EXCEPT ![r].v = vectorizer]
    /\ nread' = [nread EXCEPT ![r] = 1]
    /\ IF vectorizer.tag = "new"
       THEN /\ Leave(r, Raise("NotFittedError"))
            /\ UNCHANGED rqv
       ELSE /\ rqv' = [rqv EXCEPT ![r] = Transform(vectorizer, PreprocessText(rq[r]))]
            /\ rpc' = [rpc EXCEPT ![r] = "line 113"]
            /\ UNCHANGED <<lock, rres>>
    /\ UNCHANGED <<matcherVars, callVars, loaderVars, assistantVars, builderVars, rq, rbest>>

\* Lines 113-115: sims = cosine_similarity(qv, self.X), best, score
Score(r) ==
    /\ rpc[r] = "line 113"
    /\ seen' = [seen EXCEPT ![r].x = X]
    /\ nread' = [nread EXCEPT ![r] = 2]
    /\ IF Len(rqv[r]) # NCols(X)
       THEN /\ Leave(r, Raise("ValueError"))
            /\ UNCHANGED rbest
       ELSE /\ rbest' = [rbest EXCEPT ![r] = BestMatch(X, rqv[r])]
            /\ rpc' = [rpc EXCEPT ![r] = "line 116"]
            /\ UNCHANGED <<lock, rres>>
    /\ UNCHANGED <<matcherVars, callVars, loaderVars, assistantVars, builderVars, rq, rqv>>

\* Lines 116-118: the gate, then self.dataset[best]['answer']
Select(r) ==
    /\ rpc[r] = "line 116"
    /\ IF BelowThreshold(rbest[r].score)
       THEN UNCHANGED <<seen, nread>>
       ELSE /\ seen' = [seen EXCEPT ![r].d = dataset]
            /\ nread' = [nread EXCEPT ![r] = 3]
    /\ Leave(r, Gate(dataset, rbest[r]))
    /\ UNCHANGED <<matcherVars, callVars, loaderVars, assistantVars, builderVars, rq, rqv, rbest>>

NextConc ==
    \/ \E s \in ConcSources : BeginLoad(s)
    \/ StoreDataset
    \/ StoreVectorizer
    \/ FitVectorizer
    \/ StoreX
    \/ \E r \in Readers, q \in ConcQueries : Call(r, q)
    \/ \E r \in Readers : CheckDataset(r)
    \/ \E r \in Readers : CheckVectorizer(r)
    \/ \E r \in Readers : CheckX(r)
    \/ \E r \in Readers : TransformQuery(r)
    \/ \E r \in Readers : Score(r)
    \/ \E r \in Readers : Select(r)

SpecConc == InitConc /\ [][NextConc]_vars

(***************************************************************************)
(* Voice: toggle_voice called from the server thread and from the hotkey   *)
(* thread, and the _listen_loop threads it starts.  A step is one read or  *)
(* one assignment of self.is_listening or self.microphone; no lock guards  *)
(* them.                                                                   *)
(***************************************************************************)
\* What listen_once returns: nothing understood, or a heard command.
Heard == {<<>>, <<"joke">>, <<"time">>}

\* The assistant is constructed (its matcher on one corpus), with or without
\* a microphone.
InitVoice ==
    /\ LET r == LoadResult(FileSource(<<LineTime>>), <<>>, NoVectorizer, NoX)
       IN  /\ dataset = r.dataset
           /\ vectorizer = r.vectorizer
           /\ X = r.X
           /\ outcome = r.outcome
    /\ constructed = TRUE
    /\ raised = FALSE
    /\ query = <<>>
    /\ result = NoCall
    /\ file = <<>>
    /\ stripped = <<>>
    /\ pairs = <<>>
    /\ lpc = "open"
    /\ InitThreads
    /\ InitAssistant
    /\ microphone \in BOOLEAN

\* Line 265: toggle_voice is entered and tests self.microphone.
CheckMicrophone(t) ==
    /\ tpc[t] = "idle"
    /\ toggles < MaxToggles
    /\ toggles' = toggles + 1
    /\ tpc' = [tpc EXCEPT ![t] = IF microphone THEN "negate" ELSE "select"]
    /\ UNCHANGED <<matcherVars, callVars, loaderVars, threadVars, commandVars,
                   microphone, is_listening, tmp, loop>>

\* Lines 266-268: select_microphone sets self.microphone when a device is
\* chosen; line 267 reads the field again and returns "no-mic" when unset.
SelectMicrophone(t, found) ==
    /\ tpc[t] = "select"
    /\ microphone' = (microphone \/ found)
    /\ tpc' = [tpc EXCEPT ![t] = IF microphone' THEN "negate" ELSE "idle"]
    /\ UNCHANGED <<matcherVars, callVars, loaderVars, threadVars, commandVars,
                   is_listening, tmp, toggles, loop>>

\* Line 269, the right-hand side: self.is_listening is read.
ReadListening(t) ==
    /\ tpc[t] = "negate"
    /\ tmp' = [tmp EXCEPT ![t] = is_listening]
    /\ tpc' = [tpc EXCEPT ![t] = "store"]
    /\ UNCHANGED <<matcherVars, callVars, loaderVars, threadVars, commandVars,
                   microphone, is_listening, toggles, loop>>

\* Line 269, the assignment: the negation of the value read is stored.
StoreListening(t) ==
    /\ tpc[t] = "store"
    /\ is_listening' = ~tmp[t]
    /\ tpc' = [tpc EXCEPT ![t] = "test"]
    /\ UNCHANGED <<matcherVars, callVars, loaderVars, threadVars, commandVars,
                   microphone, tmp, toggles, loop>>

\* Lines 270-271 and 273-275: self.is_listening is read again; when set the
\* caller goes on to start a thread, otherwise it returns "ok".
TestListening(t) ==
    /\ tpc[t] = "test"
    /\ tpc' = [tpc EXCEPT ![t] = IF is_listening THEN "start" ELSE "idle"]
    /\ UNCHANGED <<matcherVars, callVars, loaderVars, threadVars, commandVars,
                   microphone, is_listening, tmp, toggles, loop>>

\* Lines 272 and 275: a new _listen_loop thread is started, "ok" returned.
StartLoop(t) ==
    /\ tpc[t] = "start"
    /\ LET l == CHOOSE k \in Loops : loop[k] = "none" /\ \A j \in 1..(k - 1) : loop[j] # "none"
       IN  loop' = [loop EXCEPT ![l] = "check"]
    /\ tpc' = [tpc EXCEPT ![t] = "idle"]
    /\ UNCHANGED <<matcherVars, callVars, loaderVars, threadVars, commandVars,
                   microphone, is_listening, tmp, toggles>>

\* Line 278: the loop condition of a _listen_loop thread.
CheckListening(l) ==
    /\ loop[l] = "check"
    /\ loop' = [loop EXCEPT ![l] = IF is_listening THEN "body" ELSE "done"]
    /\ UNCHANGED <<matcherVars, callVars, loaderVars, threadVars, commandVars,
                   microphone, is_listening, tpc, tmp, toggles>>

\* Lines 279-282: listen_once, then process_command on what was heard.  The
\* thread ends when process_command raises.
ListenOnce(l, heard) ==
    /\ loop[l] = "body"
    /\ IF heard = <<>>
       THEN /\ loop' = [loop EXCEPT ![l] = "check"]
            /\ UNCHANGED <<commandVars, query, result>>
       ELSE LET out == ProcessCommandOf(heard, dataset, vectorizer, X, TRUE)
            IN  /\ command' = heard
                /\ response' = out.response
                /\ spoken' = out.spoken
                /\ query' = out.query
                /\ result' = out.result
                /\ loop' = [loop EXCEPT ![l] =
                                IF out.response.tag = "Raise" THEN "done" ELSE "check"]
    /\ UNCHANGED <<matcherVars, constructed, outcome, raised, loaderVars, threadVars,
                   microphone, is_listening, tpc, tmp, toggles>>

NextVoice ==
    \/ \E t \in Togglers : CheckMicrophone(t)
    \/ \E t \in Togglers, found \in BOOLEAN : SelectMicrophone(t, found)
    \/ \E t \in Togglers : ReadListening(t)
    \/ \E t \in Togglers : StoreListening(t)
    \/ \E t \in Togglers : TestListening(t)
    \/ \E t \in Togglers : StartLoop(t)
    \/ \E l \in Loops : CheckListening(l)
    \/ \E l \in Loops, heard \in Heard : ListenOnce(l, heard)

SpecVoice == InitVoice /\ [][NextVoice]_vars

(***************************************************************************)
(* Properties                                                              *)
(***************************************************************************)
\* get_answer has been called since the last load.
Called == result # NoCall

\* The last build succeeded: corpus, fitted vectorizer and index are there.
Built == dataset # <<>> /\ vectorizer.tag = "fitted" /\ X.tag = "set"

\* The similarities of a query against the index of a built matcher.
SimsOf(q) == Similarities(Transform(vectorizer, PreprocessText(q)), X)

\* A score under 0.15, stated on the fixed-point value.
Under15(score) == score * 100 < 15 * Unit * Unit

\* The terms of a text that reach the index.
TermsOf(text) == Analyze(PreprocessText(text))

Snapshots ==
    {[d |-> LoadResult(s, <<>>, NoVectorizer, NoX).dataset,
      v |-> LoadResult(s, <<>>, NoVectorizer, NoX).vectorizer,
      x |-> LoadResult(s, <<>>, NoVectorizer, NoX).X] : s \in ConcSources}

\* C2 (as claimed): the fields a get_answer call has used so far (the
\* vectorizer at line 112, the index at line 113, the corpus at line 118)
\* all belong to one completed state, the one before or the one after a
\* build.
C2_SeesOneState ==
    \A r \in Readers :
        \E snap \in Snapshots :
            /\ nread[r] >= 1 => seen[r].v = snap.v
            /\ nread[r] >= 2 => seen[r].x = snap.x
            /\ nread[r] >= 3 => seen[r].d = snap.d

\* C3 (as claimed): once the last load found no question:answer line, every
\* get_answer returns None.
C3_EmptyRebuildClears ==
    (constructed /\ outcome = "no pairs" /\ Called) => result = None

\* C4: while the dataset is empty or the vectorizer or the index is missing,
\* get_answer returns None (and so raises nothing).
C4_FailsClosed ==
    (Called /\ (dataset = <<>> \/ vectorizer = NoVectorizer \/ X = NoX)) => result = None

\* C4 witness: a call on a matcher whose load stopped in fit_transform during
\* construction: a corpus and a vectorizer, no index.
C4_Witness ==
    /\ Called
    /\ dataset # <<>>
    /\ vectorizer = NewVectorizer
    /\ X = NoX
    /\ result = None

\* Two or more entries attain the maximal similarity of the last query.
TiedAtMax(sims) ==
    \E i, k \in 1..Len(sims) :
        /\ i # k
        /\ sims[i] = sims[k]
        /\ \A j \in 1..Len(sims) : sims[j] <= sims[i]

\* C5: when several entries attain the maximal similarity and it passes the
\* gate, get_answer returns the answer of the one with the lowest index; as
\* this holds of every call, repeated calls return the same answer.
C5_LowestIndexWins ==
    (Built /\ Called /\ TiedAtMax(SimsOf(query)) /\ result # None) =>
        LET sims == SimsOf(query)
        IN  \E i \in 1..Len(dataset) :
                /\ \A j \in 1..Len(sims) : sims[j] <= sims[i]
                /\ \A j \in 1..(i - 1) : sims[j] < sims[i]
                /\ result = Some(dataset[i].answer)

\* C5 witness: an answered call with two tied entries of different answers.
C5_Witness ==
    /\ Built
    /\ Called
    /\ result # None
    /\ \E i, k \in 1..Len(dataset) :
           /\ i < k
           /\ SimsOf(query)[i] = SimsOf(query)[k]
           /\ \A j \in 1..Len(dataset) : SimsOf(query)[j] <= SimsOf(query)[i]
           /\ dataset[i].answer # dataset[k].answer

\* The normalized questions of the corpus are pairwise distinct.
DistinctQuestions ==
    \A i, k \in 1..Len(dataset) :
        i # k => PreprocessText(dataset[i].question) # PreprocessText(dataset[k].question)

Proportional(a, b) ==
    \A t, u \in Range(TermOrder) : Count(t, a) * Count(u, b) = Count(u, a) * Count(t, b)

C7_EmptyQueryNone ==
    (constructed /\ Called /\ PreprocessText(query) = <<>>) => result = None

\* s is t without its leading and trailing blanks.
IsTrimOf(s, t) ==
    \E a, b \in 0..Len(t) :
        /\ a + b <= Len(t)
        /\ s = SubSeq(t, a + 1, Len(t) - b)
        /\ \A k \in 1..a : t[k] = SP
        /\ \A k \in (Len(t) - b + 1)..Len(t) : t[k] = SP
        /\ s # <<>> => (s[1] # SP /\ s[Len(s)] # SP)

\* The pair p is the line cut at its first colon, both halves trimmed.
IsSplitOf(p, line) ==
    \E c \in 1..Len(line) :
        /\ line[c] = COLON
        /\ \A k \in 1..(c - 1) : line[k] # COLON
        /\ IsTrimOf(p.question, SubSeq(line, 1, c - 1))
        /\ IsTrimOf(p.answer, SubSeq(line, c + 1, Len(line)))

LoadFailed == outcome \in {"no file", "read failed"}

C9_Swallowed ==
    LoadFailed =>
        (~raised /\ constructed /\ ((dataset = <<>> /\ Called) => result = None))

\* C9 (amended), the step part: such a load leaves the matcher as it was,
\* which under construction is the empty corpus.
C9_KeepsMatcher ==
    LoadFailed' => (UNCHANGED matcherVars /\ (~constructed => dataset' = <<>>))

C10_BuildCompletes ==
    (constructed /\ dataset # <<>> /\ \A i \in 1..Len(dataset) : TermsOf(dataset[i].question) = <<>>) =>
        /\ vectorizer.tag = "fitted"
        /\ X.tag = "set"
        /\ Len(X.rows) = Len(dataset)
        /\ \A i \in 1..Len(X.rows) : \A j \in 1..Len(X.rows[i]) : X.rows[i][j] = 0
        /\ Called => result = None

\* The terms of a text written down from its units: the words that are
\* neither punctuation nor stop words, in lower case, as their stems.
NormalForm(text) ==
    LET Word(u) == ~IsSpace(u) /\ IsAlnum(Lower(u)) /\ Lower(u) \notin StopWords
        kept == SelectSeq(text, Word)
    IN  [i \in 1..Len(kept) |-> Stem(Lower(kept[i]))]

\* C11: on a built matcher, every query that differs from the one just
\* answered only in letter case, punctuation, stop words or word forms of
\* the same stem (the same term sequence) gets the same result: both None
\* or both the same answer text.
C11_SameTermsSameResult ==
    (Built /\ Called) =>
        \A q2 \in Asked :
            NormalForm(q2) = NormalForm(query) =>
                GetAnswerOf(dataset, vectorizer, X, q2) = result

\* C11 witness: "running Time?" was answered with an answer text, and the
\* differently written "run time" has the same terms.
C11_Witness ==
    /\ Built
    /\ Called
    /\ query = <<"running", SP, "Time", "?">>
    /\ result.tag = "Some"
    /\ NormalForm(<<"run", SP, "time">>) = NormalForm(query)

\* C12: a step in which get_answer has run (every load clears the recorded
\* call) leaves the corpus, the vectorizer with its vocabulary, and the
\* document matrix as they were, whatever the query; only loads change them.
C12_AnswerKeepsState == [][(result' # NoCall) => UNCHANGED matcherVars]_vars

\* C12 witness: a built matcher has answered a query whose only term is not
\* in the vocabulary.
C12_Witness ==
    /\ Built
    /\ Called
    /\ query = <<"joke">>
    /\ "joke" \notin Range(vectorizer.vocab)
    /\ result = None

\* C13 (as claimed): a non-empty command that no built-in branch handles is
\* answered without an exception, with the matcher's answer (returned and
\* spoken) when get_answer returned one, and with the non-empty fallback
\* text (returned and spoken) when get_answer returned None.
C13_AnswerOrFallback ==
    (response # NoCall /\ command # <<>> /\ ~IsBuiltIn(Strip(LowerText(command)))) =>
        /\ response.tag = "Return"
        /\ result.tag = "Some" => (response.val = result.val /\ spoken = <<result.val>>)
        /\ result = None =>
               /\ response.val = FallbackText(command)
               /\ spoken = <<FallbackText(command)>>
               /\ response.val # <<>>

\* A _listen_loop thread that has started and not ended.
Running(l) == loop[l] \in {"check", "body"}

\* At most one _listen_loop thread runs.
AtMostOneLoop == Cardinality({l \in Loops : Running(l)}) <= 1

\* A toggle_voice call is on its way to start a thread: it has passed the
\* test of line 270, or it has yet to make it and is_listening is set.
AboutToStart ==
    \E t \in Togglers : tpc[t] = "start" \/ (tpc[t] = "test" /\ is_listening)

\* C14 (as claimed): with a microphone present, under every interleaving of
\* toggle_voice calls at most one _listen_loop thread is running, and
\* is_listening is true exactly when one is running or about to start.
C14_OneListenLoop ==
    microphone =>
        /\ AtMostOneLoop
        /\ is_listening <=> ((\E l \in Loops : Running(l)) \/ AboutToStart)

====
